---- MODULE Spec2Model ----
(***************************************************************************)
(* A model of the yotome frontend: the Chat component's transcript state   *)
(* machine (components/Chat.tsx), the API client it calls (lib/api.ts)     *)
(* and the citation renderer (MessageContent in components/Chat.tsx).      *)
(*                                                                         *)
(* A text is a sequence of one-character strings, so that trimming and     *)
(* the citation regular expression work on characters as the code does.    *)
(* An optional value (undefined in the code) is a sequence of length 0 or  *)
(* 1.  React state is committed at the end of each handler: every handler  *)
(* is one action, and an async handler is one action per resumption.       *)
(***************************************************************************)
EXTENDS Naturals, Sequences, FiniteSets

VARIABLES
  messages,   \* Chat: useState<ChatMessage[]>
  input,      \* Chat: useState('')
  isLoading,  \* Chat: useState(false)
  ragOnly,    \* Chat: useState(true)
  sources,    \* Chat: useState<{[messageId]: SourceCitation[]}>
  inflight,   \* the handleSubmit calls suspended at `await api.chat(...)`
  nIssued,    \* history: how many chat requests were posted
  nApplied,   \* history: how many request outcomes were appended
  text,       \* MessageContent: the content prop
  rendered,   \* MessageContent: the children returned by renderContent
  documents,          \* DocumentList: useState<DocumentInfo[]>([])
  filteredDocuments,  \* DocumentList: useState<DocumentInfo[]>([])
  docLoading,         \* DocumentList: loading, useState(true)
  docError,           \* DocumentList: error, useState<string | null>(null)
  searchQuery,        \* DocumentList: useState('')
  selectedTag,        \* DocumentList: useState<string>('')
  deleteConfirm,      \* DocumentList: useState<string | null>(null)
  timers,             \* the pending setTimeout callbacks of debouncedSearch, oldest first
  loads,              \* how many loadDocuments calls are suspended at `await api.listDocuments()`
  latestLoad,         \* where the most recently started loadDocuments call stands
  deletes,            \* the doc ids of the handleDelete calls suspended at their await
  refreshTrigger,     \* AdminPage: useState(0)
  uploadState,        \* DocumentUpload: useState<UploadState>
  uploads,            \* the handleUpload calls suspended at `await api.uploadDocument(...)`
  resetTimers,        \* how many setTimeout(..., 2000) callbacks of handleUpload are pending
  nUploads,           \* history: how many upload requests were posted
  caught,             \* the value given to handleApiError
  normalized,         \* the ApiError handleApiError returned for it
  authToken,          \* localStorage's 'auth_token' item
  href,               \* window.location.href
  sent,               \* the requests sent and not yet answered
  settled,            \* what the caller of the last answered request got
  streamBody,         \* streamChat: the bytes of the response body
  readPos,            \* streamChat: how many of them reader.read() has delivered
  decoder,            \* streamChat: the bytes the TextDecoder holds back
  buffer,             \* streamChat: let buffer = ''
  yielded,            \* streamChat: the tokens yielded so far
  streamPc            \* streamChat: where the generator stands

chatVars == <<messages, input, isLoading, ragOnly, sources, inflight, nIssued, nApplied>>
renderVars == <<text, rendered>>
docVars == <<documents, filteredDocuments, docLoading, docError, searchQuery, selectedTag,
             deleteConfirm, timers, loads, latestLoad, deletes>>
uploadVars == <<uploadState, uploads, resetTimers, nUploads>>
errorVars == <<caught, normalized>>
authVars == <<authToken, href, sent, settled>>
streamVars == <<streamBody, readPos, decoder, buffer, yielded, streamPc>>
libVars == <<authVars, streamVars>>
adminVars == <<docVars, refreshTrigger, uploadVars, errorVars, libVars>>
vars == <<messages, input, isLoading, ragOnly, sources, inflight, nIssued, nApplied,
          text, rendered,
          documents, filteredDocuments, docLoading, docError, searchQuery, selectedTag,
          deleteConfirm, timers, loads, latestLoad, deletes, refreshTrigger,
          uploadState, uploads, resetTimers, nUploads, caught, normalized,
          authToken, href, sent, settled,
          streamBody, readPos, decoder, buffer, yielded, streamPc>>

\* The admin page's components before they are mounted, and no error caught.
DocumentListUnmounted ==
  /\ documents = <<>>
  /\ filteredDocuments = <<>>
  /\ docLoading = TRUE
  /\ docError = <<>>
  /\ searchQuery = <<>>
  /\ selectedTag = <<>>
  /\ deleteConfirm = <<>>
  /\ timers = <<>>
  /\ loads = 0
  /\ latestLoad = "none"
  /\ deletes = <<>>

\* useState<UploadState>({file: null, uploading: false, progress: 0, ...})
InitialUploadState ==
  [file |-> <<>>, uploading |-> FALSE, progress |-> 0, error |-> <<>>, success |-> <<>>,
   tags |-> <<>>]

DocumentUploadUnmounted ==
  /\ uploadState = InitialUploadState
  /\ uploads = {}
  /\ resetTimers = 0
  /\ nUploads = 0

NothingCaught ==
  /\ caught = <<>>
  /\ normalized = <<>>

\* No token stored, nothing sent, and no streamed answer being read.
NothingSent ==
  /\ authToken = <<>>
  /\ href = "/"
  /\ sent = {}
  /\ settled = <<>>

NotStreaming ==
  /\ streamBody = <<>>
  /\ readPos = 0
  /\ decoder = <<>>
  /\ buffer = <<>>
  /\ yielded = <<>>
  /\ streamPc = "idle"

LibIdle == NothingSent /\ NotStreaming

AdminUnmounted ==
  /\ DocumentListUnmounted
  /\ refreshTrigger = 0
  /\ DocumentUploadUnmounted
  /\ NothingCaught
  /\ LibIdle

(***************************************************************************)
(* Bounds of the model.                                                    *)
(***************************************************************************)
MaxRequests == 2
MaxPieces == 4
MaxTimers == 2
MaxInFlight == 2
MaxRefreshes == 1
MaxUploads == 3

(***************************************************************************)
(* Texts.                                                                  *)
(***************************************************************************)
None == <<>>
Some(v) == <<v>>

RECURSIVE Concat(_)
Concat(ss) == IF ss = <<>> THEN <<>> ELSE Head(ss) \o Concat(Tail(ss))

SeqsUpTo(S, n) == UNION {[1..k -> S] : k \in 0..n}

\* The characters String.prototype.trim removes that the model's inputs use.
IsWhitespace(c) == c \in {" ", "\n", "\t"}

RECURSIVE TrimStart(_)
TrimStart(s) ==
  IF s # <<>> /\ IsWhitespace(Head(s)) THEN TrimStart(Tail(s)) ELSE s

RECURSIVE TrimEnd(_)
TrimEnd(s) ==
  IF s # <<>> /\ IsWhitespace(s[Len(s)]) THEN TrimEnd(SubSeq(s, 1, Len(s) - 1)) ELSE s

Trim(s) == TrimEnd(TrimStart(s))

(***************************************************************************)
(* lib/api.ts: the chat endpoint and the error normalisation.              *)
(***************************************************************************)
Src1 == [doc_id |-> "d1", filename |-> "m", chunk_index |-> 3, snippet |-> "...", score |-> 1]

\* What the transport can deliver for one POST /api/chat: a response with a
\* status and a body, or no response at all (network failure, the 30 s timeout).
ChatReplies ==
  { [kind |-> "response", status |-> 200,
     data |-> [answer |-> Some(<<"o", "k">>), sources |-> Some(<<>>)]],
    [kind |-> "response", status |-> 200,
     data |-> [answer |-> Some(<<"[", "m", "#", "3", "]">>), sources |-> Some(<<Src1>>)]],
    [kind |-> "response", status |-> 200,
     data |-> [answer |-> Some(<<"o", "k">>), sources |-> None]],
    [kind |-> "response", status |-> 500,
     data |-> [detail |-> Some(<<"boom">>), error |-> Some(<<"ignored">>), code |-> None]],
    [kind |-> "response", status |-> 422,
     data |-> [detail |-> None, error |-> Some(<<"bad">>), code |-> Some("E42")]],
    [kind |-> "response", status |-> 502,
     data |-> [detail |-> Some(<<>>), error |-> None, code |-> None]],
    [kind |-> "none", status |-> 0, data |-> [detail |-> None, error |-> None, code |-> None]] }

\* axios: validateStatus accepts 2xx.
IsSuccessStatus(status) == status >= 200 /\ status < 300

\* The message axios gives the error it rejects with.
StatusText(status) ==
  CASE status = 422 -> "422" [] status = 500 -> "500" [] status = 502 -> "502"
    [] OTHER -> "200"

AxiosMessage(reply) ==
  IF reply.kind = "none" THEN <<"timeout of 30000ms exceeded">>
  ELSE <<"Request failed with status code ", StatusText(reply.status)>>

AxiosError(reply) ==
  [isAxiosError |-> TRUE,
   response |-> IF reply.kind = "response"
                THEN Some([status |-> reply.status, data |-> reply.data]) ELSE None,
   message |-> AxiosMessage(reply)]

\* ChatResponseSchema: answer a string, sources an array of citations.
ChatResponseSchemaAccepts(data) == data.answer # None /\ data.sources # None

ZodError == [isAxiosError |-> FALSE, response |-> None, message |-> <<"Required">>]

chatBody(msgs, rag) == [messages |-> msgs, stream |-> FALSE, rag_only |-> rag]

\* api.chat after the post settles: the parsed response, or the error thrown.
api_chat(reply) ==
  IF reply.kind = "response" /\ IsSuccessStatus(reply.status)
  THEN IF ChatResponseSchemaAccepts(reply.data)
       THEN [ok |-> TRUE,
             value |-> [answer |-> reply.data.answer[1], sources |-> reply.data.sources[1]]]
       ELSE [ok |-> FALSE, error |-> ZodError]
  ELSE [ok |-> FALSE, error |-> AxiosError(reply)]

\* JavaScript's a || b on optional strings: undefined and '' are falsy.
Falsy(opt) == opt = None \/ opt = Some(<<>>)
OrElse(a, b) == IF Falsy(a) THEN b ELSE a

handleApiError_errorFirst(error) ==
  IF error.isAxiosError
  THEN LET resp == error.response
           detail == IF resp = None THEN None ELSE resp[1].data.detail
           err == IF resp = None THEN None ELSE resp[1].data.error
       IN [message |-> OrElse(err, OrElse(detail, Some(error.message)))[1],
           status |-> IF resp = None THEN None ELSE Some(resp[1].status),
           code |-> IF resp = None THEN None ELSE resp[1].data.code]
  ELSE [message |-> OrElse(Some(error.message), Some(<<"An unknown error occurred">>))[1],
        status |-> None,
        code |-> None]
handleApiError(error) ==
  IF error.isAxiosError
  THEN LET resp == error.response
           detail == IF resp = None THEN None ELSE resp[1].data.detail
           err == IF resp = None THEN None ELSE resp[1].data.error
       IN [message |-> OrElse(detail, OrElse(err, Some(error.message)))[1],
           status |-> IF resp = None THEN None ELSE Some(resp[1].status),
           code |-> IF resp = None THEN None ELSE resp[1].data.code]
  ELSE [message |-> OrElse(Some(error.message), Some(<<"An unknown error occurred">>))[1],
        status |-> None,
        code |-> None]

(***************************************************************************)
(* components/Chat.tsx: the Chat component.                                *)
(***************************************************************************)
\* The values typed into the textarea: empty, whitespace only, plain, and
\* with whitespace around and inside.
Inputs ==
  { <<>>, <<" ">>, <<"\n", " ">>, <<"a">>, <<" ", "a", "\n">>, <<"b", " ", "b">> }

\* The three suggestion buttons of the empty transcript.
Suggestions ==
  { <<"What documents do I have?">>, <<"Summarize the main topics">>,
    <<"Find information about...">> }

NoSources == [k \in {} |-> <<>>]

\* The key `assistant-${index}`.
MessageId(index) == <<"assistant-", index>>

\* sources[`assistant-${index}`], the sources prop of the bubble at position
\* index (0-based): undefined when the table has no such key.
BubbleSources(table, index) ==
  IF MessageId(index) \in DOMAIN table THEN Some(table[MessageId(index)]) ELSE None

\* if (!input.trim() || isLoading) return
\* (first the guard without its isLoading half, and without the trim)
SubmitBlocked_noLoadingGuard(inp, loading) == Trim(inp) = <<>>
SubmitBlocked_noTrim(inp, loading) == inp = <<>> \/ loading
SubmitBlocked(inp, loading) == Trim(inp) = <<>> \/ loading

\* { role: 'user', content: input.trim() }  (first with the raw input)
UserMessage_untrimmed(inp) == [role |-> "user", content |-> inp]
UserMessage(inp) == [role |-> "user", content |-> Trim(inp)]

AssistantMessage(response) == [role |-> "assistant", content |-> response.answer]

\* `assistant-${finalMessages.length - 1}`  (first with the length itself)
AssistantMessageId_offByOne(finalMessages) == MessageId(Len(finalMessages))
AssistantMessageId(finalMessages) == MessageId(Len(finalMessages) - 1)

ErrorMessage(apiError) ==
  [role |-> "assistant",
   content |-> <<"Sorry, I encountered an error: ">> \o apiError.message
                 \o <<". Please try again.">>]

\* finally { setIsLoading(false) }: runs after the try and after the catch.
\* (first as if the reset stood at the end of the try block only)
LoadingAfterSettle_tryOnly(ok) == ~ok
LoadingAfterSettle(ok) == FALSE

ChatInit ==
  /\ messages = <<>>
  /\ input = <<>>
  /\ isLoading = FALSE
  /\ ragOnly = TRUE
  /\ sources = NoSources
  /\ inflight = {}
  /\ nIssued = 0
  /\ nApplied = 0

\* The textarea's onChange; the textarea is disabled while isLoading.
SetInput(v) ==
  /\ ~isLoading
  /\ input' = v
  /\ UNCHANGED <<messages, isLoading, ragOnly, sources, inflight, nIssued, nApplied>>
  /\ UNCHANGED <<renderVars, adminVars>>

\* A suggestion button; they are rendered while the transcript is empty.
ClickSuggestion(s) ==
  /\ Len(messages) = 0
  /\ input' = s
  /\ UNCHANGED <<messages, isLoading, ragOnly, sources, inflight, nIssued, nApplied>>
  /\ UNCHANGED <<renderVars, adminVars>>

ToggleRagOnly ==
  /\ ragOnly' = ~ragOnly
  /\ UNCHANGED <<messages, input, isLoading, sources, inflight, nIssued, nApplied>>
  /\ UNCHANGED <<renderVars, adminVars>>

\* handleSubmit up to its await: the guard, the user message, the request.
\* A call record is the suspended closure: its newMessages, and the body
\* api.chat posted; id and lenAtSubmit are history.
handleSubmit ==
  /\ IF SubmitBlocked(input, isLoading)
     THEN UNCHANGED chatVars
     ELSE LET userMessage == UserMessage(input)
              newMessages == Append(messages, userMessage)
          IN /\ nIssued < MaxRequests
             /\ messages' = newMessages
             /\ input' = <<>>
             /\ isLoading' = TRUE
             /\ nIssued' = nIssued + 1
             /\ inflight' = inflight \cup
                  {[id |-> nIssued + 1, newMessages |-> newMessages,
                    body |-> chatBody(newMessages, ragOnly),
                    lenAtSubmit |-> Len(messages)]}
             /\ UNCHANGED <<ragOnly, sources, nApplied>>
  /\ UNCHANGED <<renderVars, adminVars>>

\* handleSubmit from its await on, for the call r and the reply it gets:
\* the try block's continuation or the catch block, then the finally block.
ChatSettles(r, reply) ==
  LET outcome == api_chat(reply) IN
  /\ inflight' = inflight \ {r}
  /\ nApplied' = nApplied + 1
  /\ isLoading' = LoadingAfterSettle(outcome.ok)
  /\ IF outcome.ok
     THEN LET response == outcome.value
              finalMessages == Append(r.newMessages, AssistantMessage(response))
              messageId == AssistantMessageId(finalMessages)
          IN /\ messages' = finalMessages
             /\ sources' = IF Len(response.sources) > 0
                           THEN [k \in DOMAIN sources \cup {messageId} |->
                                   IF k = messageId THEN response.sources ELSE sources[k]]
                           ELSE sources
     ELSE LET apiError == handleApiError(outcome.error)
          IN /\ messages' = Append(messages, ErrorMessage(apiError))
             /\ sources' = sources
  /\ UNCHANGED <<input, ragOnly, nIssued>>
  /\ UNCHANGED <<renderVars, adminVars>>

\* The Clear button; it is rendered while the transcript is not empty.
\* (first without setSources({}))
clearChat_keepsSources ==
  /\ Len(messages) > 0
  /\ messages' = <<>>
  /\ UNCHANGED <<sources, input, isLoading, ragOnly, inflight, nIssued, nApplied>>
  /\ UNCHANGED <<renderVars, adminVars>>
clearChat ==
  /\ Len(messages) > 0
  /\ messages' = <<>>
  /\ sources' = NoSources
  /\ UNCHANGED <<input, isLoading, ragOnly, inflight, nIssued, nApplied>>
  /\ UNCHANGED <<renderVars, adminVars>>

Init ==
  /\ ChatInit
  /\ text = <<>>
  /\ rendered = <<>>
  /\ AdminUnmounted

Next ==
  \/ \E v \in Inputs : SetInput(v)
  \/ \E s \in Suggestions : ClickSuggestion(s)
  \/ ToggleRagOnly
  \/ handleSubmit
  \/ \E r \in inflight, reply \in ChatReplies : ChatSettles(r, reply)
  \/ clearChat

Spec == Init /\ [][Next]_vars

\* The axios timeout (30 s) settles every posted request, so a suspended
\* handleSubmit is always resumed.
LiveSpec ==
  Spec /\ WF_vars(\E r \in inflight, reply \in ChatReplies : ChatSettles(r, reply))

(***************************************************************************)
(* The Chat component's claims.                                            *)
(***************************************************************************)
Last(s) == s[Len(s)]

\* s consists of whitespace only (the empty text included).
Blank(s) == \A i \in 1..Len(s) : IsWhitespace(s[i])

\* c is s without the whitespace at its two ends.
IsTrimOf(c, s) ==
  /\ c # <<>> => ~IsWhitespace(c[1]) /\ ~IsWhitespace(c[Len(c)])
  /\ \E i \in 0..Len(s) :
       /\ i + Len(c) <= Len(s)
       /\ SubSeq(s, i + 1, i + Len(c)) = c
       /\ Blank(SubSeq(s, 1, i))
       /\ Blank(SubSeq(s, i + Len(c) + 1, Len(s)))

\* sub occurs in s as a contiguous run.
Contains(s, sub) ==
  \E i \in 0..(Len(s) - Len(sub)) : SubSeq(s, i + 1, i + Len(sub)) = sub

\* C1: a handleSubmit performed while a chat request is outstanding
\* (isLoading) changes nothing: the transcript keeps its length and no
\* second request is issued.
C1_SubmitWhileLoadingIsNoop ==
  [][(handleSubmit /\ isLoading) =>
       (messages' = messages /\ nIssued' = nIssued /\ inflight' = inflight)]_vars

\* A request is outstanding and the input is not blank, so that only the
\* isLoading half of the guard stops a submit.
C1_Witness == isLoading /\ inflight # {} /\ ~Blank(input)

\* C2: a handleSubmit with an empty or whitespace-only input never appends a
\* message, never issues a request and never enters awaiting-response.
C2_BlankSubmitIsNoop ==
  [][(handleSubmit /\ Blank(input)) =>
       (messages' = messages /\ nIssued' = nIssued /\ inflight' = inflight
        /\ isLoading' = isLoading)]_vars

\* The component is idle and holds a non-empty, whitespace-only input.
C2_Witness == ~isLoading /\ input # <<>> /\ Blank(input) /\ Len(messages) > 0

\* C3: when a chat call succeeds, the transcript becomes exactly 2 entries
\* longer than it was at submit time: the user message, then an assistant
\* message carrying the answer; non-empty sources are found under the key of
\* the position of that assistant message.
C3_SuccessAppendsExchange ==
  [][\A r \in inflight, reply \in ChatReplies :
       (ChatSettles(r, reply) /\ api_chat(reply).ok) =>
         /\ Len(messages') = r.lenAtSubmit + 2
         /\ messages'[Len(messages') - 1] = Last(r.body.messages)
         /\ messages'[Len(messages') - 1].role = "user"
         /\ Last(messages') = [role |-> "assistant", content |-> reply.data.answer[1]]
         /\ reply.data.sources[1] # <<>> =>
              BubbleSources(sources', Len(messages') - 1) = Some(reply.data.sources[1])]_vars

\* A second exchange succeeded with sources: they are shown at position 3.
C3_Witness ==
  /\ ~isLoading /\ nApplied = 2 /\ Len(messages) = 4
  /\ BubbleSources(sources, 3) = Some(<<Src1>>)

\* C4 (as claimed): when a chat call fails, the transcript becomes exactly 2
\* entries longer than it was at submit time and its last entry is an
\* assistant message containing the normalized error's message.
C4_FailureAppendsExchange ==
  [][\A r \in inflight, reply \in ChatReplies :
       (ChatSettles(r, reply) /\ ~api_chat(reply).ok) =>
         /\ Len(messages') = r.lenAtSubmit + 2
         /\ Last(messages').role = "assistant"
         /\ Contains(Last(messages').content,
                     handleApiError(api_chat(reply).error).message)]_vars

\* C5: clearChat leaves the transcript empty and the sources table empty,
\* whether or not a request is outstanding.
C5_ClearResets ==
  [][clearChat => (messages' = <<>> /\ sources' = NoSources)]_vars

\* The transcript was cleared while the second request was outstanding.
C5_Witness ==
  isLoading /\ nIssued = 2 /\ nApplied = 1 /\ messages = <<>> /\ sources = NoSources

\* The transcript is a sequence of user, assistant exchanges.
CompleteExchanges(ms) ==
  /\ Len(ms) % 2 = 0
  /\ \A i \in 1..Len(ms) : ms[i].role = (IF i % 2 = 1 THEN "user" ELSE "assistant")

\* C6 (as claimed): when idle the transcript consists of complete exchanges;
\* while awaiting a response it is complete exchanges plus one user message.
C6_NoPartialConversation ==
  IF isLoading
  THEN /\ Len(messages) > 0
       /\ CompleteExchanges(SubSeq(messages, 1, Len(messages) - 1))
       /\ Last(messages).role = "user"
  ELSE CompleteExchanges(messages)

\* C7: at most one chat request is outstanding, and the k-th outcome
\* appended to the transcript is that of the k-th request issued.
C7_OneOutstandingInOrder ==
  /\ [](Cardinality(inflight) <= 1)
  /\ [][\A r \in inflight \ inflight' : r.id = nApplied + 1]_vars

\* Two requests were issued and both outcomes were applied.
C7_Witness == nIssued = 2 /\ nApplied = 2 /\ inflight = {}

\* C8: every submission that enters awaiting-response returns to idle, given
\* that the request completes.
C8_LoadingEnds == isLoading ~> ~isLoading

\* A request completed and the component is idle again.
C8_Witness == nApplied > 0 /\ ~isLoading /\ inflight = {}

\* C9: the body posted by a submit holds the transcript as it stood followed
\* by the user message of the trimmed input, stream false, and rag_only equal
\* to the grounding flag.
C9_RequestCarriesHistory ==
  [][nIssued' > nIssued =>
       \E r \in inflight' \ inflight :
         /\ Len(r.body.messages) = Len(messages) + 1
         /\ SubSeq(r.body.messages, 1, Len(messages)) = messages
         /\ Last(r.body.messages).role = "user"
         /\ IsTrimOf(Last(r.body.messages).content, input)
         /\ r.body.rag_only = ragOnly
         /\ r.body.stream = FALSE]_vars

\* The second request is outstanding: it carries three messages, the last
\* one typed with whitespace inside, and the grounding flag switched off.
C9_Witness ==
  \E r \in inflight :
    /\ Len(r.body.messages) = 3
    /\ Last(r.body.messages).content = <<"b", " ", "b">>
    /\ r.body.rag_only = FALSE

(***************************************************************************)
(* components/Chat.tsx: MessageContent, the citation renderer.             *)
(***************************************************************************)
IsDigit(c) == c \in {"0", "1", "2", "3", "4", "5", "6", "7", "8", "9"}

Max(S) == CHOOSE x \in S : \A y \in S : y <= x
Min(S) == CHOOSE x \in S : \A y \in S : x <= y

\* /\[([^\]]+)#(\d+)\]/ tried at position i of t (1-based), as a backtracking
\* matcher runs it: '[', then the longest name of characters other than ']'
\* for which the rest matches: '#', the longest digit run for which a ']'
\* follows.  None when no attempt succeeds.
DigitLens(t, k) ==
  {d \in 1..(Len(t) - k - 1) :
     /\ \A x \in (k + 1)..(k + d) : IsDigit(t[x])
     /\ t[k + d + 1] = "]"}

NameLens(t, i) ==
  {n \in 1..(Len(t) - i - 3) :
     /\ \A x \in (i + 1)..(i + n) : t[x] # "]"
     /\ t[i + n + 1] = "#"
     /\ DigitLens(t, i + n + 1) # {}}

MatchAt(t, i) ==
  IF i <= Len(t) /\ t[i] = "[" /\ NameLens(t, i) # {}
  THEN LET n == Max(NameLens(t, i))
           k == i + n + 1
           d == Max(DigitLens(t, k))
       IN Some([index |-> i, end |-> k + d + 1,
                name |-> SubSeq(t, i + 1, i + n),
                idx |-> SubSeq(t, k + 1, k + d)])
  ELSE None

\* The first match at or after position p: the matcher tries the start
\* positions from left to right.
ExecFrom(t, p) ==
  LET starts == {i \in p..Len(t) : MatchAt(t, i) # None}
  IN IF starts = {} THEN None ELSE MatchAt(t, Min(starts))

\* text.split(citationRegex): the text before each match, then the match's
\* two capture groups, ..., then the text after the last match.
RECURSIVE SplitFrom(_, _)
SplitFrom(t, p) ==
  LET m == ExecFrom(t, p)
  IN IF m = None
     THEN <<SubSeq(t, p, Len(t))>>
     ELSE <<SubSeq(t, p, m[1].index - 1), m[1].name, m[1].idx>>
            \o SplitFrom(t, m[1].end + 1)

split(t) == SplitFrom(t, 1)

CitationSpan(key, part, chunkIndex) ==
  [kind |-> "citation", key |-> key,
   title |-> <<"Source: ">> \o part \o <<", Chunk: ">> \o chunkIndex,
   children |-> <<"[">> \o part \o <<"#">> \o chunkIndex \o <<"]">>]

TextSpan(key, part) == [kind |-> "text", key |-> key, title |-> <<>>, children |-> part]

Null == [kind |-> "null", key |-> 0, title |-> <<>>, children |-> <<>>]

\* The callback of parts.map; index is 0-based as in the code.
\* (first without the branch that drops the chunk-index parts)
RenderPart_keepsIndexParts(parts, index) ==
  IF index % 3 = 1
  THEN CitationSpan(index, parts[index + 1], parts[index + 2])
  ELSE TextSpan(index, parts[index + 1])
RenderPart(parts, index) ==
  IF index % 3 = 1
  THEN CitationSpan(index, parts[index + 1], parts[index + 2])
  ELSE IF index % 3 = 2
       THEN Null
       ELSE TextSpan(index, parts[index + 1])

renderContent(t) ==
  LET parts == split(t)
  IN [j \in 1..Len(parts) |-> RenderPart(parts, j - 1)]

\* The contents given to MessageContent: up to MaxPieces pieces, each a
\* single character or a whole citation marker.
Pieces ==
  { <<"x">>, <<"[">>, <<"]">>, <<"#">>, <<"1">>,
    <<"[", "m", "#", "3", "]">>, <<"[", "a", " ", "b", "#", "1", "2", "]">> }

Contents == {Concat(ps) : ps \in SeqsUpTo(Pieces, MaxPieces)}

NotRendered == <<>>

RenderInit ==
  /\ ChatInit
  /\ text \in Contents
  /\ rendered = NotRendered
  /\ AdminUnmounted

\* MessageContent renders its content prop.
MessageContent ==
  /\ rendered = NotRendered
  /\ rendered' = renderContent(text)
  /\ UNCHANGED text
  /\ UNCHANGED <<chatVars, adminVars>>

RenderNext == MessageContent

RenderSpec == RenderInit /\ [][RenderNext]_vars

(***************************************************************************)
(* The citation renderer's claims.                                         *)
(***************************************************************************)
\* t[i..j] is a well-formed marker [name#idx] whose '#' is at k: the name is
\* not empty and has no ']', the idx is a non-empty digit sequence.
IsMarker(t, i, k, j) ==
  /\ i + 1 < k /\ k + 1 < j
  /\ t[i] = "[" /\ t[k] = "#" /\ t[j] = "]"
  /\ \A x \in (i + 1)..(k - 1) : t[x] # "]"
  /\ \A x \in (k + 1)..(j - 1) : IsDigit(t[x])

MarkersFrom(t, p) ==
  {m \in (p..Len(t)) \X (p..Len(t)) \X (p..Len(t)) : IsMarker(t, m[1], m[2], m[3])}

\* The segments of t from position p: the markers taken from left to right
\* without overlap, and the plain text between them.
RECURSIVE Segments(_, _)
Segments(t, p) ==
  LET ms == MarkersFrom(t, p)
  IN IF ms = {}
     THEN <<[kind |-> "text", text |-> SubSeq(t, p, Len(t))]>>
     ELSE LET m == CHOOSE m \in ms : \A o \in ms : m[1] <= o[1]
          IN <<[kind |-> "text", text |-> SubSeq(t, p, m[1] - 1)],
               [kind |-> "citation", name |-> SubSeq(t, m[1] + 1, m[2] - 1),
                idx |-> SubSeq(t, m[2] + 1, m[3] - 1)]>>
               \o Segments(t, m[3] + 1)

\* What one segment is to be rendered as.
SegmentElement(seg) ==
  IF seg.kind = "text"
  THEN [kind |-> "text", title |-> <<>>, children |-> seg.text]
  ELSE [kind |-> "citation",
        title |-> <<"Source: ">> \o seg.name \o <<", Chunk: ">> \o seg.idx,
        children |-> <<"[">> \o seg.name \o <<"#">> \o seg.idx \o <<"]">>]

\* The elements React displays: null children are not rendered.
Displayed(els) ==
  LET shown == SelectSeq(els, LAMBDA e : e.kind # "null")
  IN [j \in 1..Len(shown) |->
        [kind |-> shown[j].kind, title |-> shown[j].title, children |-> shown[j].children]]

\* C10: a text with N well-formed markers is rendered as its N citation
\* elements in left-to-right order, each with the marker's name and idx,
\* with the plain text around them kept verbatim and in order; a text with
\* no marker is rendered as the text itself.
C10_RendersMarkersInOrder ==
  rendered # NotRendered =>
    LET segs == Segments(text, 1)
    IN /\ Displayed(rendered) = [j \in 1..Len(segs) |-> SegmentElement(segs[j])]
       /\ MarkersFrom(text, 1) = {} =>
            Displayed(rendered) = <<[kind |-> "text", title |-> <<>>, children |-> text]>>

\* A rendered text with two markers and plain text before and between them.
C10_Witness ==
  /\ rendered # NotRendered
  /\ Len(Segments(text, 1)) = 5
  /\ \A j \in {1, 3} : Segments(text, 1)[j].text # <<>>

(***************************************************************************)
(* lib/api.ts: the document endpoints.  lib/utils.ts: debounce.            *)
(***************************************************************************)
\* DocumentInfo, with the fields the list's logic reads.
Doc1 == [doc_id |-> "d1", filename |-> <<"A", "b">>, tags |-> << <<"q">> >>]
Doc2 == [doc_id |-> "d2", filename |-> <<"c">>, tags |-> << <<"a", "B">>, <<"q">> >>]
Doc3 == [doc_id |-> "d3", filename |-> <<"b", "c">>, tags |-> <<>>]

NoErrorData == [detail |-> None, error |-> None, code |-> None]

\* What the transport can deliver for one GET /api/docs.
ListReplies ==
  { [kind |-> "response", status |-> 200,
     data |-> [items |-> Some(<<Doc1, Doc2>>), total |-> Some(2)]],
    [kind |-> "response", status |-> 200,
     data |-> [items |-> Some(<<Doc2>>), total |-> Some(1)]],
    [kind |-> "response", status |-> 500,
     data |-> [detail |-> Some(<<"boom">>), error |-> None, code |-> None]] }

DocumentListResponseSchemaAccepts(data) == data.items # None /\ data.total # None

api_listDocuments(reply) ==
  IF reply.kind = "response" /\ IsSuccessStatus(reply.status)
  THEN IF DocumentListResponseSchemaAccepts(reply.data)
       THEN [ok |-> TRUE, value |-> [items |-> reply.data.items[1], total |-> reply.data.total[1]]]
       ELSE [ok |-> FALSE, error |-> ZodError]
  ELSE [ok |-> FALSE, error |-> AxiosError(reply)]

\* What the transport can deliver for one DELETE /api/docs/{doc_id}.
DeleteReplies ==
  { [kind |-> "response", status |-> 200,
     data |-> [deleted |-> Some(TRUE), message |-> Some(<<"deleted">>)]],
    [kind |-> "response", status |-> 200,
     data |-> [deleted |-> Some(FALSE), message |-> Some(<<"not found">>)]],
    [kind |-> "response", status |-> 500,
     data |-> [detail |-> Some(<<"boom">>), error |-> None, code |-> None]] }

DeleteResponseSchemaAccepts(data) == data.deleted # None /\ data.message # None

api_deleteDocument(reply) ==
  IF reply.kind = "response" /\ IsSuccessStatus(reply.status)
  THEN IF DeleteResponseSchemaAccepts(reply.data)
       THEN [ok |-> TRUE,
             value |-> [deleted |-> reply.data.deleted[1], message |-> reply.data.message[1]]]
       ELSE [ok |-> FALSE, error |-> ZodError]
  ELSE [ok |-> FALSE, error |-> AxiosError(reply)]

\* One call of a function debounce returned: timeout is that function's own
\* variable (None for null), queue the pending setTimeout callbacks, job the
\* callback the call schedules.  clearTimeout removes the callback the
\* variable refers to.
debounce(timeout, queue, job) ==
  LET kept == IF timeout = None
              THEN queue
              ELSE SelectSeq(queue, LAMBDA j : j # timeout[1])
  IN Append(kept, job)

(***************************************************************************)
(* components/DocumentList (in Layout.tsx): the document list.             *)
(***************************************************************************)
LowerChar(c) == CASE c = "A" -> "a" [] c = "B" -> "b" [] c = "C" -> "c" [] OTHER -> c

toLowerCase(s) == [i \in 1..Len(s) |-> LowerChar(s[i])]

includes(s, sub) ==
  \E i \in 0..(Len(s) - Len(sub)) : SubSeq(s, i + 1, i + Len(sub)) = sub

Range(s) == {s[i] : i \in 1..Len(s)}

\* filterDocuments(query, tag) of a render whose documents state is docs:
\* the list it gives to setFilteredDocuments.
MatchesQuery(doc, query) ==
  LET lowercaseQuery == toLowerCase(query)
  IN \/ includes(toLowerCase(doc.filename), lowercaseQuery)
     \/ \E t \in Range(doc.tags) : includes(toLowerCase(t), lowercaseQuery)

FilterByQuery_firstMatch(docs, query) ==
  LET hits == SelectSeq(docs, LAMBDA doc : MatchesQuery(doc, query))
  IN IF query # <<>> /\ hits # <<>> THEN <<Head(hits)>> ELSE IF query # <<>> THEN <<>> ELSE docs
FilterByQuery(docs, query) ==
  IF query # <<>> THEN SelectSeq(docs, LAMBDA doc : MatchesQuery(doc, query)) ELSE docs

FilterByTag_caseInsensitive(docs, tag) ==
  IF tag # <<>>
  THEN SelectSeq(docs, LAMBDA doc : \E t \in Range(doc.tags) : toLowerCase(t) = toLowerCase(tag))
  ELSE docs
FilterByTag(docs, tag) ==
  IF tag # <<>> THEN SelectSeq(docs, LAMBDA doc : tag \in Range(doc.tags)) ELSE docs

filterDocuments(docs, query, tag) == FilterByTag(FilterByQuery(docs, query), tag)

\* The values typed into the search box.
SearchQueries == { <<>>, <<"a", "b">>, <<"C">> }

getAllTags(docs) == UNION {Range(doc.tags) : doc \in Range(docs)}

\* The list, the search box and the dialog are rendered when neither the
\* loading card nor the error card is.
ListShown == ~docLoading /\ docError = None

\* The confirmation dialog is part of the list view: {deleteConfirm && ...}.
DeleteDialogShown == ListShown /\ deleteConfirm # None

\* useEffect(() => debouncedSearch(searchQuery), [searchQuery, selectedTag,
\* documents]) after a render with the given state.  debouncedSearch is made
\* by debounce(...) in the component body, so each render has its own, whose
\* timeout variable is still null when the effect calls it.  The callback
\* keeps its render's documents and selectedTag.
SearchEffect(queue, query, tag, docs) ==
  debounce(None, queue, [query |-> query, tag |-> tag, documents |-> docs])

\* The dependencies that make the effect run after a render.
SearchEffectDeps_noDocuments(queryChanged, tagChanged, documentsChanged) ==
  queryChanged \/ tagChanged
SearchEffectDeps(queryChanged, tagChanged, documentsChanged) ==
  queryChanged \/ tagChanged \/ documentsChanged

\* The state after the component is mounted: both effects have run once.
DocumentListMounted ==
  /\ documents = <<>>
  /\ filteredDocuments = <<>>
  /\ docLoading = TRUE
  /\ docError = None
  /\ searchQuery = <<>>
  /\ selectedTag = <<>>
  /\ deleteConfirm = None
  /\ timers = SearchEffect(<<>>, <<>>, <<>>, <<>>)
  /\ loads = 1
  /\ latestLoad = "outstanding"
  /\ deletes = <<>>

DocInit ==
  /\ DocumentListMounted
  /\ refreshTrigger = 0
  /\ ChatInit
  /\ text = <<>>
  /\ rendered = <<>>
  /\ DocumentUploadUnmounted
  /\ NothingCaught
  /\ LibIdle

notDocVars == <<chatVars, renderVars, uploadVars, errorVars, libVars>>

\* loadDocuments up to its await.
loadDocuments ==
  /\ docLoading' = TRUE
  /\ docError' = None
  /\ loads' = loads + 1
  /\ latestLoad' = "outstanding"
  /\ UNCHANGED <<documents, filteredDocuments, searchQuery, selectedTag, deleteConfirm,
                 timers, deletes>>

\* The search box's onChange.
SetSearchQuery(q) ==
  /\ ListShown
  /\ q # searchQuery
  /\ Len(timers) < MaxTimers
  /\ searchQuery' = q
  /\ timers' = IF SearchEffectDeps(TRUE, FALSE, FALSE)
               THEN SearchEffect(timers, q, selectedTag, documents) ELSE timers
  /\ UNCHANGED <<documents, filteredDocuments, docLoading, docError, selectedTag,
                 deleteConfirm, loads, deletes, refreshTrigger>>
  /\ UNCHANGED latestLoad
  /\ UNCHANGED notDocVars

\* The tag select's onChange; its options are '' and the documents' tags.
SetSelectedTag(t) ==
  /\ ListShown
  /\ getAllTags(documents) # {}
  /\ t \in getAllTags(documents) \cup {<<>>}
  /\ t # selectedTag
  /\ Len(timers) < MaxTimers
  /\ selectedTag' = t
  /\ timers' = IF SearchEffectDeps(FALSE, TRUE, FALSE)
               THEN SearchEffect(timers, searchQuery, t, documents) ELSE timers
  /\ UNCHANGED <<documents, filteredDocuments, docLoading, docError, searchQuery,
                 deleteConfirm, loads, deletes, refreshTrigger>>
  /\ UNCHANGED latestLoad
  /\ UNCHANGED notDocVars

\* AdminPage increments refreshTrigger: useEffect(() => loadDocuments(),
\* [refreshTrigger]) runs.
Refresh ==
  /\ refreshTrigger < MaxRefreshes
  /\ loads + Len(deletes) < MaxInFlight
  /\ refreshTrigger' = refreshTrigger + 1
  /\ loadDocuments
  /\ UNCHANGED notDocVars

\* The error card's Try Again button.
TryAgain ==
  /\ ~docLoading
  /\ docError # None
  /\ loads + Len(deletes) < MaxInFlight
  /\ loadDocuments
  /\ UNCHANGED refreshTrigger
  /\ UNCHANGED notDocVars

\* Which of the suspended loadDocuments calls a response resumes: the most
\* recently started one, or one started before it.
Resumable ==
  (IF latestLoad = "outstanding" THEN {"latest"} ELSE {})
    \cup (IF loads > (IF latestLoad = "outstanding" THEN 1 ELSE 0) THEN {"earlier"} ELSE {})

\* loadDocuments from its await on, for the call resumed and the reply it
\* gets.
ListSettles(which, reply) ==
  LET outcome == api_listDocuments(reply) IN
  /\ which \in Resumable
  /\ latestLoad' = IF which = "latest" THEN "applied"
                    ELSE IF latestLoad = "applied" THEN "overtaken" ELSE latestLoad
  /\ loads' = loads - 1
  /\ docLoading' = FALSE
  /\ IF outcome.ok
     THEN /\ Len(timers) < MaxTimers
          /\ documents' = outcome.value.items
          /\ filteredDocuments' = outcome.value.items
          /\ timers' = IF SearchEffectDeps(FALSE, FALSE, TRUE)
                       THEN SearchEffect(timers, searchQuery, selectedTag, outcome.value.items)
                       ELSE timers
          /\ UNCHANGED docError
     ELSE /\ docError' = Some(handleApiError(outcome.error).message)
          /\ UNCHANGED <<documents, filteredDocuments, timers>>
  /\ UNCHANGED <<searchQuery, selectedTag, deleteConfirm, deletes, refreshTrigger>>
  /\ UNCHANGED notDocVars

\* A document card's delete button.
AskDelete(docId) ==
  /\ ListShown
  /\ \E doc \in Range(filteredDocuments) : doc.doc_id = docId
  /\ deleteConfirm' = Some(docId)
  /\ UNCHANGED <<documents, filteredDocuments, docLoading, docError, searchQuery,
                 selectedTag, timers, loads, deletes, refreshTrigger>>
  /\ UNCHANGED latestLoad
  /\ UNCHANGED notDocVars

\* The dialog's Cancel button.
CancelDelete ==
  /\ ListShown
  /\ deleteConfirm # None
  /\ deleteConfirm' = None
  /\ UNCHANGED <<documents, filteredDocuments, docLoading, docError, searchQuery,
                 selectedTag, timers, loads, deletes, refreshTrigger>>
  /\ UNCHANGED latestLoad
  /\ UNCHANGED notDocVars

\* The dialog's Delete button: handleDelete up to its await.
handleDelete ==
  /\ ListShown
  /\ deleteConfirm # None
  /\ loads + Len(deletes) < MaxInFlight
  /\ deletes' = Append(deletes, deleteConfirm[1])
  /\ UNCHANGED <<documents, filteredDocuments, docLoading, docError, searchQuery,
                 selectedTag, deleteConfirm, timers, loads, refreshTrigger>>
  /\ UNCHANGED latestLoad
  /\ UNCHANGED notDocVars

RemoveAt(s, i) == SubSeq(s, 1, i - 1) \o SubSeq(s, i + 1, Len(s))

\* handleDelete from its await on, for the i-th suspended call and its reply.
DeleteSettles(i, reply) ==
  LET outcome == api_deleteDocument(reply)
      docId == deletes[i]
      kept(docs) == SelectSeq(docs, LAMBDA doc : doc.doc_id # docId)
  IN
  /\ deletes' = RemoveAt(deletes, i)
  /\ IF outcome.ok
     THEN /\ Len(timers) < MaxTimers
          /\ documents' = kept(documents)
          /\ filteredDocuments' = kept(filteredDocuments)
          /\ deleteConfirm' = None
          /\ timers' = IF SearchEffectDeps(FALSE, FALSE, TRUE)
                       THEN SearchEffect(timers, searchQuery, selectedTag, kept(documents))
                       ELSE timers
          /\ UNCHANGED docError
     ELSE /\ docError' = Some(handleApiError(outcome.error).message)
          /\ UNCHANGED <<documents, filteredDocuments, deleteConfirm, timers>>
  /\ UNCHANGED <<docLoading, searchQuery, selectedTag, loads, refreshTrigger>>
  /\ UNCHANGED latestLoad
  /\ UNCHANGED notDocVars

\* The oldest pending debouncedSearch callback runs: timers of equal delay
\* fire in the order they were set.
SearchTimerFires ==
  /\ timers # <<>>
  /\ filteredDocuments' =
       filterDocuments(Head(timers).documents, Head(timers).query, Head(timers).tag)
  /\ timers' = Tail(timers)
  /\ UNCHANGED <<documents, docLoading, docError, searchQuery, selectedTag, deleteConfirm,
                 loads, deletes, refreshTrigger>>
  /\ UNCHANGED latestLoad
  /\ UNCHANGED notDocVars

DocNext ==
  \/ \E q \in SearchQueries : SetSearchQuery(q)
  \/ \E t \in getAllTags(documents) \cup {<<>>} : SetSelectedTag(t)
  \/ Refresh
  \/ TryAgain
  \/ \E which \in {"latest", "earlier"}, reply \in ListReplies : ListSettles(which, reply)
  \/ \E doc \in Range(filteredDocuments) : AskDelete(doc.doc_id)
  \/ CancelDelete
  \/ handleDelete
  \/ \E i \in 1..Len(deletes), reply \in DeleteReplies : DeleteSettles(i, reply)
  \/ SearchTimerFires

DocSpec == DocInit /\ [][DocNext]_vars

(***************************************************************************)
(* components/DocumentUpload and the admin page that holds it together     *)
(* with the document list.                                                 *)
(***************************************************************************)
\* What the transport can deliver for one POST /api/docs/upload.
UploadReplies ==
  { [kind |-> "response", status |-> 200,
     data |-> [doc_id |-> Some("d9"), filename |-> Some("stored.pdf"),
               chunks |-> Some(3), message |-> Some("ok")]],
    [kind |-> "response", status |-> 200,
     data |-> [doc_id |-> Some("d9"), filename |-> Some("stored.pdf"),
               chunks |-> None, message |-> Some("ok")]],
    [kind |-> "response", status |-> 422,
     data |-> [detail |-> Some(<<"Unsupported file type">>), error |-> None, code |-> None]],
    [kind |-> "response", status |-> 500,
     data |-> [detail |-> None, error |-> Some(<<"storage failed">>), code |-> Some("E7")]],
    [kind |-> "none", status |-> 0, data |-> NoErrorData] }

UploadResponseSchemaAccepts(data) ==
  data.doc_id # None /\ data.filename # None /\ data.chunks # None /\ data.message # None

\* Array.prototype.join(',').
RECURSIVE join(_)
join(list) ==
  IF list = <<>> THEN <<>>
  ELSE IF Len(list) = 1 THEN list[1]
  ELSE list[1] \o <<",">> \o join(Tail(list))

\* The form data uploadDocument posts.
uploadBody(f, tagList) ==
  [file |-> f, tags |-> IF Len(tagList) > 0 THEN Some(join(tagList)) ELSE None]

api_uploadDocument(reply) ==
  IF reply.kind = "response" /\ IsSuccessStatus(reply.status)
  THEN IF UploadResponseSchemaAccepts(reply.data)
       THEN [ok |-> TRUE,
             value |-> [doc_id |-> reply.data.doc_id[1], filename |-> reply.data.filename[1],
                        chunks |-> reply.data.chunks[1], message |-> reply.data.message[1]]]
       ELSE [ok |-> FALSE, error |-> ZodError]
  ELSE [ok |-> FALSE, error |-> AxiosError(reply)]

\* String.prototype.split(',').
RECURSIVE splitComma(_)
splitComma(str) ==
  IF \E i \in 1..Len(str) : str[i] = ","
  THEN LET at == CHOOSE i \in 1..Len(str) :
                   str[i] = "," /\ \A k \in 1..(i - 1) : str[k] # ","
       IN <<SubSeq(str, 1, at - 1)>> \o splitComma(SubSeq(str, at + 1, Len(str)))
  ELSE <<str>>

\* The tags handleUpload sends for the tag text.
parseTags_untrimmed(tagText) ==
  SelectSeq(splitComma(tagText), LAMBDA tag : Len(tag) > 0)
parseTags(tagText) ==
  SelectSeq([i \in 1..Len(splitComma(tagText)) |-> Trim(splitComma(tagText)[i])],
            LAMBDA tag : Len(tag) > 0)

\* The decimal text of a number below ten, as a template literal writes it.
NumberText(n) ==
  CASE n = 0 -> "0" [] n = 1 -> "1" [] n = 2 -> "2" [] n = 3 -> "3" [] n = 4 -> "4"
    [] n = 5 -> "5" [] n = 6 -> "6" [] n = 7 -> "7" [] n = 8 -> "8" [] OTHER -> "9"

SuccessText(uploaded) ==
  <<"Successfully uploaded \"", uploaded.filename, "\" with ",
    NumberText(uploaded.chunks), " chunks">>

\* The files the user picks and the tag texts the user types.
Files == {"a.pdf", "b.txt"}
TagTexts == { <<>>, <<"a", ",", " ", "c">>, <<" ", "b", " ", ",", ",", "b">> }

\* The admin page after mount: the upload component idle, the document list
\* having started its first load.
UploadInit ==
  /\ uploadState = InitialUploadState
  /\ uploads = {}
  /\ resetTimers = 0
  /\ nUploads = 0
  /\ refreshTrigger = 0
  /\ DocumentListMounted
  /\ ChatInit
  /\ text = <<>>
  /\ rendered = <<>>
  /\ NothingCaught
  /\ LibIdle

notUploadVars == <<chatVars, renderVars, errorVars, libVars>>

\* handleFileSelect, from the drop area or the file input; both are
\* rendered only while no file is selected.
handleFileSelect(f) ==
  /\ uploadState.file = None
  /\ uploadState' = [uploadState EXCEPT !.file = Some(f), !.error = None, !.success = None]
  /\ UNCHANGED <<uploads, resetTimers, nUploads, refreshTrigger, docVars>>
  /\ UNCHANGED notUploadVars

\* The tags input's onChange; rendered with the file, disabled while
\* uploading.
SetTags(v) ==
  /\ uploadState.file # None
  /\ ~uploadState.uploading
  /\ v # uploadState.tags
  /\ uploadState' = [uploadState EXCEPT !.tags = v]
  /\ UNCHANGED <<uploads, resetTimers, nUploads, refreshTrigger, docVars>>
  /\ UNCHANGED notUploadVars

\* The remove button; rendered with the file, disabled while uploading.
removeFile ==
  /\ uploadState.file # None
  /\ ~uploadState.uploading
  /\ uploadState' = [uploadState EXCEPT !.file = None, !.error = None, !.success = None]
  /\ UNCHANGED <<uploads, resetTimers, nUploads, refreshTrigger, docVars>>
  /\ UNCHANGED notUploadVars

\* Whether the Upload button can be clicked: rendered with the file,
\* disabled while uploading.
UploadButtonEnabled == uploadState.file # None /\ ~uploadState.uploading

\* The Upload button: handleUpload up to its await.
handleUpload ==
  /\ UploadButtonEnabled
  /\ nUploads < MaxUploads
  /\ IF uploadState.file = None
     THEN UNCHANGED <<uploadState, uploads, nUploads>>
     ELSE /\ uploadState' = [uploadState EXCEPT !.uploading = TRUE, !.progress = 0,
                                                 !.error = None, !.success = None]
          /\ nUploads' = nUploads + 1
          /\ uploads' = uploads \cup
               {[id |-> nUploads + 1,
                 file |-> uploadState.file[1],
                 tagText |-> uploadState.tags,
                 tags |-> parseTags(uploadState.tags),
                 body |-> uploadBody(uploadState.file[1], parseTags(uploadState.tags))]}
  /\ UNCHANGED <<resetTimers, refreshTrigger, docVars>>
  /\ UNCHANGED notUploadVars

\* The message the catch block shows.
UploadErrorText_generic(err) == <<"Upload failed">>
UploadErrorText(err) == handleApiError(err).message

\* Whether the catch block schedules the reset and the refresh.
RefreshAfterFailure_too == TRUE
RefreshAfterFailure == FALSE

\* handleUpload from its await on, for one outstanding call and its reply.
UploadSettles(call, reply) ==
  LET outcome == api_uploadDocument(reply) IN
  /\ call \in uploads
  /\ uploads' = uploads \ {call}
  /\ IF outcome.ok
     THEN /\ uploadState' = [uploadState EXCEPT !.uploading = FALSE,
                                                 !.success = Some(SuccessText(outcome.value))]
          /\ resetTimers' = resetTimers + 1
     ELSE /\ uploadState' = [uploadState EXCEPT !.uploading = FALSE,
                                                 !.error = Some(UploadErrorText(outcome.error))]
          /\ resetTimers' = IF RefreshAfterFailure THEN resetTimers + 1 ELSE resetTimers
  /\ UNCHANGED <<nUploads, refreshTrigger, docVars>>
  /\ UNCHANGED notUploadVars

\* handleUploadComplete of the admin page, and the document list's
\* useEffect(() => loadDocuments(), [refreshTrigger]) that follows.
handleUploadComplete ==
  /\ refreshTrigger' = refreshTrigger + 1
  /\ loadDocuments

\* A reset timer fires: resetUploadState(), then onUploadComplete().
ResetTimerFires ==
  /\ resetTimers > 0
  /\ resetTimers' = resetTimers - 1
  /\ uploadState' = InitialUploadState
  /\ handleUploadComplete
  /\ UNCHANGED <<uploads, nUploads>>
  /\ UNCHANGED notUploadVars

UploadNext ==
  \/ \E f \in Files : handleFileSelect(f)
  \/ \E v \in TagTexts : SetTags(v)
  \/ removeFile
  \/ handleUpload
  \/ \E call \in uploads, reply \in UploadReplies : UploadSettles(call, reply)
  \/ ResetTimerFires

UploadSpec == UploadInit /\ [][UploadNext]_vars

\* A response or a timeout arrives for every outstanding upload, and every
\* timer set fires.
UploadLiveSpec ==
  /\ UploadSpec
  /\ WF_vars(\E call \in uploads, reply \in UploadReplies : UploadSettles(call, reply))
  /\ WF_vars(ResetTimerFires)

\* The list loaded with a query and a tag already chosen: the state after a
\* successful loadDocuments, the search effect's callback pending.
Without(S, x) == S \ {x}

RECURSIVE ListsOf(_)
ListsOf(S) ==
  {<<>>} \cup UNION { {<<doc>> \o rest : rest \in ListsOf(Without(S, doc))} : doc \in S }

FilterQueries == { <<>>, <<"a", "b">>, <<"C">>, <<"B">>, <<"q">>, <<"x">> }
FilterTags == { <<>>, <<"q">>, <<"a", "B">>, <<"a", "b">> }

FilterInit ==
  /\ documents \in ListsOf({Doc1, Doc2, Doc3})
  /\ filteredDocuments = documents
  /\ docLoading = FALSE
  /\ docError = None
  /\ searchQuery \in FilterQueries
  /\ selectedTag \in FilterTags
  /\ deleteConfirm = None
  /\ timers = SearchEffect(<<>>, searchQuery, selectedTag, documents)
  /\ loads = 0
  /\ latestLoad = "applied"
  /\ deletes = <<>>
  /\ refreshTrigger = 0
  /\ ChatInit
  /\ text = <<>>
  /\ rendered = <<>>
  /\ DocumentUploadUnmounted
  /\ NothingCaught
  /\ LibIdle

FilterNext == SearchTimerFires

FilterSpec == FilterInit /\ [][FilterNext]_vars

(***************************************************************************)
(* The document list's claims.                                             *)
(***************************************************************************)
SameLetter(a, b) ==
  a = b \/ {a, b} \in { {"a", "A"}, {"b", "B"}, {"c", "C"} }

ContainsIgnoringCase(s, sub) ==
  \E i \in 0..(Len(s) - Len(sub)) : \A k \in 1..Len(sub) : SameLetter(s[i + k], sub[k])

Wanted(doc, query, tag) ==
  /\ \/ query = <<>>
     \/ ContainsIgnoringCase(doc.filename, query)
     \/ \E i \in 1..Len(doc.tags) : ContainsIgnoringCase(doc.tags[i], query)
  /\ \/ tag = <<>>
     \/ \E i \in 1..Len(doc.tags) : doc.tags[i] = tag

WantedOf(docs, query, tag) == SelectSeq(docs, LAMBDA doc : Wanted(doc, query, tag))

\* C11: when the filter callback runs for a document set, a query and a tag,
\* the list it stores holds exactly the documents of the set whose filename
\* or some tag contains the query ignoring case (every document for the
\* empty query) and which carry the tag when one is selected, in the set's
\* order.
C11_FilterSelectsExactly ==
  [][SearchTimerFires =>
       filteredDocuments' =
         WantedOf(Head(timers).documents, Head(timers).query, Head(timers).tag)]_vars

\* A run of the filter with query and tag both set that kept one document
\* by a tag which matches the query only when case is ignored, and dropped
\* another.
C11_Witness ==
  /\ timers = <<>>
  /\ documents = <<Doc1, Doc2, Doc3>>
  /\ searchQuery = <<"a", "b">>
  /\ selectedTag = <<"a", "B">>
  /\ filteredDocuments = <<Doc2>>

\* C12: for every query x and tag a, filtering by a the result of filtering
\* the documents by x equals filtering by x the result of filtering them
\* by a, and both equal what filterDocuments computes.
C12_FilterOrderIndependent ==
  \A x \in FilterQueries, a \in FilterTags :
    /\ FilterByTag(FilterByQuery(documents, x), a) = FilterByQuery(FilterByTag(documents, a), x)
    /\ filterDocuments(documents, x, a) = FilterByQuery(FilterByTag(documents, a), x)

\* The filter has run on a set from which the query alone and the tag alone
\* select different, non-empty, proper sublists.
C12_Witness ==
  /\ timers = <<>>
  /\ searchQuery # <<>>
  /\ selectedTag # <<>>
  /\ FilterByQuery(documents, searchQuery) # documents
  /\ FilterByTag(documents, selectedTag) # documents
  /\ FilterByQuery(documents, searchQuery) # FilterByTag(documents, selectedTag)
  /\ filteredDocuments # <<>>
  /\ filteredDocuments # FilterByQuery(documents, searchQuery)
  /\ filteredDocuments # FilterByTag(documents, selectedTag)

\* C13: whenever no filter callback is pending, the stored filtered list is
\* the filter of the current documents by the current query and tag.
C13_SettledListIsFiltered ==
  timers = <<>> => filteredDocuments = WantedOf(documents, searchQuery, selectedTag)

\* All callbacks have run after a delete left one document and a query and
\* a tag were chosen.
C13_Witness ==
  /\ timers = <<>>
  /\ Len(documents) = 1
  /\ searchQuery # <<>>
  /\ selectedTag # <<>>
  /\ ListShown

\* C14: a search-input change that arrives while the callback of the
\* previous change is still pending replaces it: one callback stays
\* pending, for the last query.
C14_BurstRecomputesOnce ==
  [][(/\ searchQuery' # searchQuery
      /\ timers = <<[query |-> searchQuery, tag |-> selectedTag, documents |-> documents]>>)
     => timers' = <<[query |-> searchQuery', tag |-> selectedTag, documents |-> documents]>>]_vars

(***************************************************************************)
(* The upload component's claims.                                          *)
(***************************************************************************)
Failed(reply) == ~api_uploadDocument(reply).ok

\* C15: when an upload request fails, uploading is false afterwards, the
\* file and the tag text of that upload are still the selected ones, an
\* error message is set and no success message is.
C15_FailureKeepsFileAndTags ==
  [][\A call \in uploads, reply \in UploadReplies :
       (UploadSettles(call, reply) /\ Failed(reply)) =>
         /\ ~uploadState'.uploading
         /\ uploadState'.file = Some(call.file)
         /\ uploadState'.tags = call.tagText
         /\ uploadState'.error # None
         /\ uploadState'.success = None]_vars

\* C16: a response to an upload sets one reset timer when the upload
\* succeeded and none when it failed, and refreshes nothing by itself; the
\* refresh trigger changes only when a reset timer fires, by one, with the
\* upload component reset to idle and one listDocuments call started; every
\* timer set does fire.
C16_SuccessResetsAndRefreshesOnce ==
  /\ [][\A call \in uploads, reply \in UploadReplies :
          UploadSettles(call, reply) =>
            /\ resetTimers' = resetTimers + (IF Failed(reply) THEN 0 ELSE 1)
            /\ refreshTrigger' = refreshTrigger
            /\ loads' = loads]_vars
  /\ [][(refreshTrigger' # refreshTrigger \/ resetTimers' < resetTimers) =>
          /\ resetTimers' = resetTimers - 1
          /\ refreshTrigger' = refreshTrigger + 1
          /\ loads' = loads + 1
          /\ uploadState' = InitialUploadState]_vars
  /\ \A n \in 0..MaxUploads :
       (resetTimers > 0 /\ refreshTrigger = n) ~> (refreshTrigger > n)

\* Two uploads are over: one succeeded and its timer has refreshed the list
\* once, the other failed.
C16_Witness ==
  /\ nUploads = 2
  /\ uploads = {}
  /\ resetTimers = 0
  /\ refreshTrigger = 1
  /\ loads = 2
  /\ uploadState.error # None

\* The comma-separated entries of a tag text, by the positions of its commas.
CommasOf(str) == {i \in 1..Len(str) : str[i] = ","}

Nth(S, j) == CHOOSE k \in S : Cardinality({m \in S : m < k}) = j - 1

Cut(str, k) ==
  IF k = 0 THEN 0
  ELSE IF k > Cardinality(CommasOf(str)) THEN Len(str) + 1
  ELSE Nth(CommasOf(str), k)

Entry(str, k) == SubSeq(str, Cut(str, k - 1) + 1, Cut(str, k) - 1)

KeptEntries(str) == {k \in 1..(Cardinality(CommasOf(str)) + 1) : ~Blank(Entry(str, k))}

\* list holds the trimmed non-blank entries of str, one per entry, in order.
IsTagListOf(list, str) ==
  /\ Len(list) = Cardinality(KeptEntries(str))
  /\ \A j \in 1..Len(list) : IsTrimOf(list[j], Entry(str, Nth(KeptEntries(str), j)))

\* list holds the trimmed non-blank entries of str once each, in the order
\* of their first appearance.
IsUniqueTagListOf(list, str) ==
  LET FirstEntry(tag) == Min({k \in KeptEntries(str) : IsTrimOf(tag, Entry(str, k))}) IN
  /\ \A j \in 1..Len(list) :
       list[j] # <<>> /\ \E k \in KeptEntries(str) : IsTrimOf(list[j], Entry(str, k))
  /\ \A k \in KeptEntries(str) : \E j \in 1..Len(list) : IsTrimOf(list[j], Entry(str, k))
  /\ \A i, j \in 1..Len(list) : i < j =>
       list[i] # list[j] /\ FirstEntry(list[i]) < FirstEntry(list[j])

\* C17 as stated: the tags an upload sends are the trimmed non-empty entries
\* of the tag text at submit time, in input order, each appearing once.
C17_TagsTrimmedOnce ==
  [][handleUpload =>
       \A call \in uploads' \ uploads : IsUniqueTagListOf(call.tags, uploadState.tags)]_vars

\* C17 as amended: the tags an upload sends are the trimmed non-empty
\* entries of the tag text at submit time, one per entry and in input order
\* (an entry that repeats is sent as often as it is written), joined by
\* commas in the request and left out of it when there are none.
C17_TagsTrimmedInOrder ==
  [][handleUpload =>
       \A call \in uploads' \ uploads :
         /\ IsTagListOf(call.tags, uploadState.tags)
         /\ call.body.tags = IF call.tags = <<>> THEN None ELSE Some(join(call.tags))]_vars

\* An upload was submitted with a tag text that has a padded entry, a blank
\* one and a repeated one.
C17_Witness ==
  \E call \in uploads :
    /\ call.tagText = <<" ", "b", " ", ",", ",", "b">>
    /\ call.tags = << <<"b">>, <<"b">> >>
    /\ call.body.tags = Some(<<"b", ",", "b">>)

\* C18: one DocumentUpload never has two upload requests outstanding.
C18_OneUploadOutstanding == Cardinality(uploads) <= 1

\* The message of a backend rejection: FastAPI's detail, or the error field
\* of the backend's own error body.
RejectionMessage(reply) ==
  IF reply.data.detail # None THEN reply.data.detail ELSE reply.data.error

\* C20: when the backend answers an upload with a rejection, the error shown
\* is the rejection's message unchanged and the step issues no request; the
\* number of upload requests issued only grows by a click on Upload.
C20_RejectionShownVerbatimNoRetry ==
  /\ [][\A call \in uploads, reply \in UploadReplies :
          (/\ UploadSettles(call, reply)
           /\ reply.kind = "response"
           /\ ~IsSuccessStatus(reply.status)) =>
             /\ uploadState'.error = RejectionMessage(reply)
             /\ nUploads' = nUploads
             /\ uploads' = uploads \ {call}]_vars
  /\ [][nUploads' # nUploads =>
          /\ uploadState.file # None
          /\ ~uploadState.uploading
          /\ uploadState'.uploading
          /\ nUploads' = nUploads + 1]_vars

\* The backend's 422 has been shown; nothing is outstanding and the file is
\* still selected.
C20_Witness ==
  /\ uploadState.error = Some(<<"Unsupported file type">>)
  /\ uploadState.file # None
  /\ uploads = {}
  /\ nUploads = 1
  /\ resetTimers = 0

(***************************************************************************)
(* lib/api.ts: handleApiError on everything a catch block can hand it.     *)
(***************************************************************************)
\* The error bodies a backend response can carry: each field absent, empty
\* or set.
ErrorBodies ==
  [detail : {None, Some(<<>>), Some(<<"no such document">>)},
   error : {None, Some(<<>>), Some(<<"bad request">>)},
   code : {None, Some("E42")}]

ErrorReplies ==
  [kind : {"response"}, status : {422, 500, 502}, data : ErrorBodies]
    \cup {[kind |-> "none", status |-> 0, data |-> NoErrorData]}

\* What the api functions throw: the transport's errors, the schema's, and
\* other exceptions with or without a message.
Thrown ==
  {AxiosError(reply) : reply \in ErrorReplies}
    \cup {ZodError,
          [isAxiosError |-> FALSE, response |-> None, message |-> <<"x is not a function">>],
          [isAxiosError |-> FALSE, response |-> None, message |-> <<>>]}

ErrorInit ==
  /\ caught \in {Some(thrown) : thrown \in Thrown}
  /\ normalized = None
  /\ ChatInit
  /\ text = <<>>
  /\ rendered = <<>>
  /\ DocumentListUnmounted
  /\ refreshTrigger = 0
  /\ DocumentUploadUnmounted
  /\ LibIdle

\* const apiError = handleApiError(error) in a catch block.
Normalize ==
  /\ caught # None
  /\ normalized = None
  /\ normalized' = Some(handleApiError(caught[1]))
  /\ UNCHANGED <<caught, chatVars, renderVars, docVars, refreshTrigger, uploadVars, libVars>>

ErrorNext == Normalize

ErrorSpec == ErrorInit /\ [][ErrorNext]_vars

(***************************************************************************)
(* The error normalisation's claim.                                        *)
(***************************************************************************)
Present(field) == field # None /\ field[1] # <<>>

\* The error shape the claim gives for what was caught; an empty field
\* counts as absent.
MapsAsStated ==
  LET thrown == caught[1]
      shape == normalized[1]
      body == thrown.response[1].data
  IN IF thrown.isAxiosError /\ thrown.response # None
     THEN /\ Present(body.detail) => shape.message = body.detail[1]
          /\ ~Present(body.detail) /\ Present(body.error) => shape.message = body.error[1]
          /\ ~Present(body.detail) /\ ~Present(body.error) => shape.message = thrown.message
          /\ shape.status = Some(thrown.response[1].status)
          /\ shape.code = body.code
     ELSE /\ shape.message =
               IF thrown.message # <<>> THEN thrown.message
               ELSE <<"An unknown error occurred">>
          /\ shape.status = None
          /\ shape.code = None

OnlyMessageSet(shape) == shape.status = None /\ shape.code = None

\* C19 as stated: every failure is mapped as described, and what is set in
\* the shape tells a validation error from a transport error: a transport
\* error never has the message as its only field.
C19_ShapeTellsValidationFromNetwork ==
  normalized # None =>
    /\ MapsAsStated
    /\ caught[1].isAxiosError => ~OnlyMessageSet(normalized[1])

\* C19 as amended: every failure is mapped as described; the shape has a
\* status exactly when a transport error with a backend response was
\* caught, so a validation error differs in shape from those, and has the
\* shape of a transport error without a response (timeout, no connection).
C19_ShapeTellsValidationFromResponse ==
  normalized # None =>
    /\ MapsAsStated
    /\ normalized[1].status # None <=> (caught[1].isAxiosError /\ caught[1].response # None)
    /\ (~caught[1].isAxiosError \/ caught[1].response = None) => OnlyMessageSet(normalized[1])

\* A response whose detail is empty and whose error and code are set has
\* been normalised.
C19_Witness ==
  /\ caught # None
  /\ caught[1].response # None
  /\ caught[1].response[1].data.detail = Some(<<>>)
  /\ normalized = Some([message |-> <<"bad request">>, status |-> Some(422), code |-> Some("E42")])

(***************************************************************************)
(* Further claims about the Chat component and the citation renderer.      *)
(***************************************************************************)
\* C24: when the outcome of a request is applied to a transcript that was
\* cleared while the request was outstanding, the transcript afterwards
\* holds none of the user messages the request was submitted with.
C24_ClearedMessagesStayGone ==
  [][\A r \in inflight, reply \in ChatReplies :
       (ChatSettles(r, reply) /\ messages = <<>>) =>
         \A i \in 1..Len(messages'), j \in 1..Len(r.newMessages) :
           r.newMessages[j].role = "user" => messages'[i] # r.newMessages[j]]_vars

\* The replies that answer with a given content.
AnsweredWith(content) ==
  {reply \in ChatReplies : api_chat(reply).ok /\ api_chat(reply).value.answer = content}

\* C25: every key assistant-i of the sources table has i below the
\* transcript length, entry i is an assistant message, and the list stored
\* is the non-empty sources list of a response with that entry's answer.
C25_SourcesKeysPointAtTheirAnswers ==
  \A key \in DOMAIN sources :
    \E i \in 0..(Len(messages) - 1) :
      /\ key = MessageId(i)
      /\ messages[i + 1].role = "assistant"
      /\ sources[key] # <<>>
      /\ \E reply \in AnsweredWith(messages[i + 1].content) :
           api_chat(reply).value.sources = sources[key]

\* Two answers are in the transcript, the later one with sources and the
\* earlier one without.
C25_Witness ==
  /\ Len(messages) = 4
  /\ DOMAIN sources = {MessageId(3)}
  /\ messages[2].role = "assistant"
  /\ inflight = {}

\* C26: the children of the elements the renderer returns, concatenated in
\* order (a citation element's children are '[' name '#' idx ']'), are the
\* input text.
C26_RenderingLosesNoText ==
  rendered # NotRendered =>
    Concat([j \in 1..Len(Displayed(rendered)) |-> Displayed(rendered)[j].children]) = text

\* A rendered text that has a citation whose name starts with a bracket,
\* with text after it.
C26_Witness ==
  /\ rendered # NotRendered
  /\ Len(text) > 6
  /\ text[1] = "[" /\ text[2] = "["
  /\ \E j \in 1..Len(rendered) : rendered[j].kind = "citation" /\ rendered[j].key = 1
  /\ Last(rendered).children # <<>>

(***************************************************************************)
(* Further claims about the document list.                                 *)
(***************************************************************************)
\* C23: when a delete request fails, deleteConfirm still names the document
\* of the request, the confirmation dialog is shown with the error set, and
\* the documents and the filtered list are unchanged.
C23_FailedDeleteKeepsDialog ==
  [][\A i \in 1..Len(deletes), reply \in DeleteReplies :
       (DeleteSettles(i, reply) /\ ~api_deleteDocument(reply).ok) =>
         /\ deleteConfirm' = Some(deletes[i])
         /\ DeleteDialogShown'
         /\ docError' # None
         /\ documents' = documents
         /\ filteredDocuments' = filteredDocuments]_vars

\* C27: the filtered list holds only documents of the current document set.
C27_FilteredWithinDocuments == Range(filteredDocuments) \subseteq Range(documents)

\* C28: once the response to the most recently started load has been
\* applied, the response to a load started before it, arriving later as the
\* last one outstanding, leaves the document set as it is.
C28_LatestResponseWins ==
  [][\A reply \in ListReplies :
       (/\ ListSettles("earlier", reply)
        /\ latestLoad = "applied"
        /\ docError = None
        /\ loads' = 0) =>
         documents' = documents]_vars

(***************************************************************************)
(* A further claim about the upload component.                             *)
(***************************************************************************)
\* The file shown was selected after the last success message: that
\* message, which only a new selection, a removal or a new upload takes
\* away, is gone, and no upload has been started since.
SelectedAfterSuccess ==
  /\ uploadState.file # None
  /\ uploadState.success = None
  /\ uploadState.error = None
  /\ ~uploadState.uploading

\* C29: when the reset timer of an earlier upload fires, a file selected
\* after that upload's success message stays selected, and an upload that
\* is under way stays marked as uploading.
C29_ResetSparesLaterState ==
  [][ResetTimerFires =>
       /\ SelectedAfterSuccess => uploadState'.file = uploadState.file
       /\ uploadState.uploading => uploadState'.uploading]_vars

(***************************************************************************)
(* lib/api.ts: streamChat, from the moment the response is ok and its      *)
(* reader is obtained.  The body is a sequence of bytes: an ASCII          *)
(* character is its own byte, "C3" "A9" are the two bytes of U+00E9.       *)
(***************************************************************************)
\* decoder.decode(value, {stream: true}): the text of the bytes, an
\* unfinished character being held back for the next call.
decode(held, bytes) ==
  LET all == held \o bytes
      charAt(i) ==
        IF all[i] = "C3"
        THEN IF i = Len(all) \/ all[i + 1] = "A9" THEN "" ELSE "U+FFFD"
        ELSE IF all[i] = "A9"
             THEN IF i > 1 /\ all[i - 1] = "C3" THEN "U+00E9" ELSE "U+FFFD"
             ELSE all[i]
      Decoded(c) == c # ""
  IN [out |-> SelectSeq([i \in 1..Len(all) |-> charAt(i)], Decoded),
      held |-> IF all # <<>> /\ Last(all) = "C3" THEN <<"C3">> ELSE <<>>]

\* String.prototype.split('\n').
RECURSIVE splitLines(_)
splitLines(str) ==
  IF \E i \in 1..Len(str) : str[i] = "\n"
  THEN LET at == Min({i \in 1..Len(str) : str[i] = "\n"})
       IN <<SubSeq(str, 1, at - 1)>> \o splitLines(SubSeq(str, at + 1, Len(str)))
  ELSE <<str>>

\* buffer = lines.pop() || ''  (first as if the unfinished line were dropped)
NextBuffer_dropsPartial(pieces) == <<>>
NextBuffer(pieces) == Last(pieces)

DataPrefix == <<"d", "a", "t", "a", ":", " ">>
DoneMark == <<"[", "D", "O", "N", "E", "]">>

startsWith(str, prefix) ==
  Len(str) >= Len(prefix) /\ SubSeq(str, 1, Len(prefix)) = prefix

TokenJsonHead == <<"{", "\"", "t", "o", "k", "e", "n", "\"", ":", "\"">>
TokenJsonTail == <<"\"", "}">>

\* JSON.parse on the payloads of the model: an object with a string token
\* (no escapes), the empty object, null, a number; anything else is a
\* SyntaxError.  White space around the value is allowed.
JSONparse(str) ==
  LET t == Trim(str)
      mid == SubSeq(t, Len(TokenJsonHead) + 1, Len(t) - Len(TokenJsonTail))
  IN IF /\ Len(t) >= Len(TokenJsonHead) + Len(TokenJsonTail)
        /\ startsWith(t, TokenJsonHead)
        /\ SubSeq(t, Len(t) - 1, Len(t)) = TokenJsonTail
        /\ \A i \in 1..Len(mid) : mid[i] \notin {"\"", "\\", "\n"}
     THEN [ok |-> TRUE, kind |-> "object", token |-> Some(mid)]
     ELSE IF t = <<"{", "}">> THEN [ok |-> TRUE, kind |-> "object", token |-> None]
     ELSE IF t = <<"n", "u", "l", "l">> THEN [ok |-> TRUE, kind |-> "null", token |-> None]
     ELSE IF t # <<>> /\ \A i \in 1..Len(t) : IsDigit(t[i])
          THEN [ok |-> TRUE, kind |-> "number", token |-> None]
     ELSE [ok |-> FALSE, kind |-> "SyntaxError", token |-> None]

\* The body of the for loop for one line: whether it returns, and what it
\* yields.  A SyntaxError of JSON.parse and the TypeError of null.token are
\* caught by the inner catch.
\* (first as if a payload that fails to parse ended the stream)
LineEffect_abortOnMalformed(sseLine) ==
  IF startsWith(sseLine, DataPrefix)
  THEN LET payload == SubSeq(sseLine, 7, Len(sseLine))
           parsed == JSONparse(payload)
       IN IF payload = DoneMark \/ ~parsed.ok THEN [stop |-> TRUE, tokens |-> <<>>]
          ELSE IF parsed.kind = "object" /\ ~Falsy(parsed.token)
               THEN [stop |-> FALSE, tokens |-> <<parsed.token[1]>>]
               ELSE [stop |-> FALSE, tokens |-> <<>>]
  ELSE [stop |-> FALSE, tokens |-> <<>>]
LineEffect(sseLine) ==
  IF startsWith(sseLine, DataPrefix)
  THEN LET payload == SubSeq(sseLine, 7, Len(sseLine))
           parsed == JSONparse(payload)
       IN IF payload = DoneMark THEN [stop |-> TRUE, tokens |-> <<>>]
          ELSE IF parsed.ok /\ parsed.kind = "object" /\ ~Falsy(parsed.token)
               THEN [stop |-> FALSE, tokens |-> <<parsed.token[1]>>]
               ELSE [stop |-> FALSE, tokens |-> <<>>]
  ELSE [stop |-> FALSE, tokens |-> <<>>]

\* for (const line of lines) { ... }
RECURSIVE ForLines(_)
ForLines(pieces) ==
  IF pieces = <<>> THEN [stop |-> FALSE, tokens |-> <<>>]
  ELSE LET eff == LineEffect(Head(pieces))
       IN IF eff.stop THEN eff
          ELSE LET rest == ForLines(Tail(pieces))
               IN [stop |-> rest.stop, tokens |-> eff.tokens \o rest.tokens]

\* One pass of the while loop for a chunk the reader delivered, from the
\* decoder state and the buffer before it.
WhilePass(held, buf, bytes) ==
  LET dec == decode(held, bytes)
      pieces == splitLines(buf \o dec.out)
      run == ForLines(SubSeq(pieces, 1, Len(pieces) - 1))
  IN [held |-> dec.held, buffer |-> NextBuffer(pieces), tokens |-> run.tokens,
      stop |-> run.stop]

\* The response bodies of the model.
Event(tokenBytes) == DataPrefix \o TokenJsonHead \o tokenBytes \o TokenJsonTail

Terminated(sseLines) == Concat([i \in 1..Len(sseLines) |-> sseLines[i] \o <<"\n">>])

StreamBodies ==
  { Terminated(<<Event(<<"a">>), <<>>, Event(<<"C3", "A9">>), <<>>, DataPrefix \o DoneMark, <<>>>>),
    Terminated(<<Event(<<"a">>), DataPrefix \o <<"{", "x">>, Event(<<>>), Event(<<"b">>),
                 DataPrefix \o DoneMark, Event(<<"a">>)>>),
    Terminated(<<Event(<<>>), DataPrefix \o <<"n", "u", "l", "l">>, <<":", "k">>,
                 Event(<<"b">>)>>) \o Event(<<"a">>),
    <<>> }

StreamInit ==
  /\ streamBody \in StreamBodies
  /\ readPos = 0
  /\ decoder = <<>>
  /\ buffer = <<>>
  /\ yielded = <<>>
  /\ streamPc = "reading"
  /\ NothingSent
  /\ ChatInit
  /\ text = <<>>
  /\ rendered = <<>>
  /\ DocumentListUnmounted
  /\ refreshTrigger = 0
  /\ DocumentUploadUnmounted
  /\ NothingCaught

notStreamVars == <<chatVars, renderVars, docVars, refreshTrigger, uploadVars, errorVars, authVars>>

\* reader.read() delivers the next n bytes, and the loop body runs on them.
ReadChunk(n) ==
  /\ streamPc = "reading"
  /\ n \in 1..(Len(streamBody) - readPos)
  /\ LET pass == WhilePass(decoder, buffer, SubSeq(streamBody, readPos + 1, readPos + n))
     IN /\ decoder' = pass.held
        /\ buffer' = pass.buffer
        /\ yielded' = yielded \o pass.tokens
        /\ streamPc' = IF pass.stop THEN "returned" ELSE "reading"
  /\ readPos' = readPos + n
  /\ UNCHANGED streamBody
  /\ UNCHANGED notStreamVars

\* reader.read() reports done: break.
ReadDone ==
  /\ streamPc = "reading"
  /\ readPos = Len(streamBody)
  /\ streamPc' = "returned"
  /\ UNCHANGED <<streamBody, readPos, decoder, buffer, yielded>>
  /\ UNCHANGED notStreamVars

\* reader.read() rejects (the connection breaks): the outer catch throws
\* handleApiError(error).
ReadFails ==
  /\ streamPc = "reading"
  /\ readPos < Len(streamBody)
  /\ streamPc' = "thrown"
  /\ UNCHANGED <<streamBody, readPos, decoder, buffer, yielded>>
  /\ UNCHANGED notStreamVars

StreamNext ==
  \/ \E n \in 1..Len(streamBody) : ReadChunk(n)
  \/ ReadDone
  \/ ReadFails

StreamSpec == StreamInit /\ [][StreamNext]_vars

(***************************************************************************)
(* Claims about streamChat.  What should have been yielded is stated from  *)
(* the text itself: its lines are told apart by the positions of its line  *)
(* feeds, not by the loop of the code.                                     *)
(***************************************************************************)
ReadText == decode(<<>>, SubSeq(streamBody, 1, readPos)).out

LineFeeds(str) == {i \in 1..Len(str) : str[i] = "\n"}

\* The k-th line of str that its line feed has ended.
EndedLine(str, k) ==
  SubSeq(str, IF k = 1 THEN 1 ELSE Nth(LineFeeds(str), k - 1) + 1, Nth(LineFeeds(str), k) - 1)

\* The ended lines no later than which no 'data: [DONE]' line has come.
BeforeDone(str) ==
  {k \in 1..Cardinality(LineFeeds(str)) :
     \A m \in 1..k : EndedLine(str, m) # DataPrefix \o DoneMark}

WellFormedEvent(sseLine) ==
  /\ Len(sseLine) >= Len(Event(<<>>))
  /\ startsWith(sseLine, DataPrefix \o TokenJsonHead)
  /\ SubSeq(sseLine, Len(sseLine) - 1, Len(sseLine)) = TokenJsonTail
  /\ \A i \in (Len(DataPrefix \o TokenJsonHead) + 1)..(Len(sseLine) - 2) :
       sseLine[i] \notin {"\"", "\\"}

TokenOfEvent(sseLine) ==
  SubSeq(sseLine, Len(DataPrefix \o TokenJsonHead) + 1, Len(sseLine) - 2)

TokensAt(str, K) ==
  [j \in 1..Cardinality(K) |-> TokenOfEvent(EndedLine(str, Nth(K, j)))]

EveryToken(str) ==
  TokensAt(str, {k \in BeforeDone(str) : WellFormedEvent(EndedLine(str, k))})

NonEmptyTokens(str) ==
  TokensAt(str, {k \in BeforeDone(str) :
                   /\ WellFormedEvent(EndedLine(str, k))
                   /\ TokenOfEvent(EndedLine(str, k)) # <<>>})

\* C22 as stated: what streamChat has yielded is the token of every
\* well-formed 'data:' event that came before the first 'data: [DONE]' line,
\* in arrival order, whatever malformed events came between them.
C22_YieldsEveryToken == yielded = EveryToken(ReadText)

\* C22 amended: what streamChat has yielded is the token of every well-formed
\* 'data:' event with a non-empty token that came before the first
\* 'data: [DONE]' line, in arrival order; malformed events are skipped, an
\* empty token is not yielded, nothing after '[DONE]' is yielded.
C22_YieldsEveryNonEmptyToken == yielded = NonEmptyTokens(ReadText)

\* The stream with a malformed event, an empty token and a token behind
\* '[DONE]' has been read to its end, and both tokens around the malformed
\* event were yielded.
C22_Witness ==
  /\ streamPc = "returned"
  /\ readPos = Len(streamBody)
  /\ yielded = << <<"a">>, <<"b">> >>
  /\ \E k \in BeforeDone(ReadText) : EndedLine(ReadText, k) = Event(<<>>)
  /\ \E k \in BeforeDone(ReadText) :
       /\ startsWith(EndedLine(ReadText, k), DataPrefix)
       /\ ~JSONparse(SubSeq(EndedLine(ReadText, k), 7, Len(EndedLine(ReadText, k)))).ok
  /\ Cardinality(LineFeeds(ReadText)) > Cardinality(BeforeDone(ReadText)) + 1

\* C30: however the transport cut the bytes read so far into chunks, the
\* tokens yielded, the unfinished line kept and the unfinished character held
\* are those of reading the same bytes as one chunk.
C30_ChunkingDoesNotMatter ==
  LET whole == WhilePass(<<>>, <<>>, SubSeq(streamBody, 1, readPos))
  IN /\ yielded = whole.tokens
     /\ streamPc = "reading" => buffer = whole.buffer /\ decoder = whole.held

\* A stream with a two-byte character in a token has been read to its
\* '[DONE]' line, and both of its tokens were yielded.
C30_Witness ==
  /\ streamPc = "returned"
  /\ yielded = << <<"a">>, <<"U+00E9">> >>
  /\ buffer = <<>>
  /\ readPos = Len(streamBody)

(***************************************************************************)
(* lib/api.ts: the requests to the backend.  The api functions go through  *)
(* apiClient and its interceptors; streamChat goes through fetch.          *)
(***************************************************************************)
StoredTokens == {"t1", "t2"}

\* The api functions that send through apiClient.
ApiFunctions == {"healthCheck", "chat", "listDocuments", "uploadDocument",
                 "deleteDocument", "getSettings"}

ResponseStatuses == {200, 401, 500}

\* Authorization: `Bearer ${token}`
Bearer(tok) == <<"Bearer", tok>>

\* The request interceptor of apiClient.
RequestInterceptor(stored) ==
  IF stored # None /\ stored[1] # "" THEN Some(Bearer(stored[1])) ELSE None

\* The headers streamChat hands to fetch: Content-Type and Accept.
StreamHeaders(stored) == None

AuthInit ==
  /\ authToken \in {None} \cup {Some(tok) : tok \in StoredTokens}
  /\ href = "/"
  /\ sent = {}
  /\ settled = None
  /\ NotStreaming
  /\ ChatInit
  /\ text = <<>>
  /\ rendered = <<>>
  /\ DocumentListUnmounted
  /\ refreshTrigger = 0
  /\ DocumentUploadUnmounted
  /\ NothingCaught

notAuthVars == <<chatVars, renderVars, docVars, refreshTrigger, uploadVars, errorVars, streamVars>>

\* An api function sends its request through apiClient.
Send(fn) ==
  /\ Cardinality(sent) < MaxInFlight
  /\ sent' = sent \cup {[fn |-> fn, via |-> "apiClient",
                         authorization |-> RequestInterceptor(authToken)]}
  /\ UNCHANGED <<authToken, href, settled>>
  /\ UNCHANGED notAuthVars

\* streamChat sends its request through fetch.
SendStream ==
  /\ Cardinality(sent) < MaxInFlight
  /\ sent' = sent \cup {[fn |-> "streamChat", via |-> "fetch",
                         authorization |-> StreamHeaders(authToken)]}
  /\ UNCHANGED <<authToken, href, settled>>
  /\ UNCHANGED notAuthVars

\* The response to a request arrives.  For apiClient the response interceptor
\* runs and the caller gets the response or the rejected error with its
\* status; streamChat throws Error(`HTTP error! status: ${response.status}`)
\* on a response that is not ok, an error that carries the status in its
\* message only.
Respond(req, status) ==
  /\ req \in sent
  /\ sent' = sent \ {req}
  /\ IF req.via = "apiClient" /\ status = 401
     THEN authToken' = None /\ href' = "/login"
     ELSE UNCHANGED <<authToken, href>>
  /\ settled' = Some([fn |-> req.fn, ok |-> status = 200,
                      status |-> IF req.via = "apiClient" THEN Some(status) ELSE None,
                      message |-> IF req.via = "fetch" /\ status # 200
                                  THEN Some(<<"HTTP error! status: ", status>>)
                                  ELSE None])
  /\ UNCHANGED notAuthVars

AuthNext ==
  \/ \E fn \in ApiFunctions : Send(fn)
  \/ SendStream
  \/ \E req \in sent, status \in ResponseStatuses : Respond(req, status)

AuthSpec == AuthInit /\ [][AuthNext]_vars

\* C21: every request sent while a token is stored carries it as a bearer
\* token (one sent while none is stored carries none, so none sent after a
\* 401 carries the old token); a 401 response clears the stored token,
\* redirects to the login route and is reported to the caller as an error.
C21_EveryRequestAuthorized ==
  [][/\ \A q \in sent' \ sent :
          q.authorization = IF authToken = None THEN None ELSE Some(Bearer(authToken[1]))
     /\ \A q \in sent :
          Respond(q, 401) =>
            authToken' = None /\ href' = "/login" /\ settled' # None /\ ~settled'[1].ok]_vars

====
